---- MODULE Spec2Model ----
(***************************************************************************)
(* Model of the 3dSignature stroke pipeline: the 2D recreation component   *)
(* (SignatureRecreate: drawSignature and the index-based reveal) and the   *)
(* 3D ribbon component (SignatureModel: the dash-offset reveal).           *)
(*                                                                         *)
(* Numbers are exact rationals [k, n, d] with the JavaScript specials NaN, *)
(* Infinity and "not a number type" (undefined); IEEE rounding is not      *)
(* modelled.  Pressures are rationals too.  The 3D dash offset is counted  *)
(* in thousandths, so the step 0.003 is 3.                                 *)
(***************************************************************************)
EXTENDS Integers, Sequences, FiniteSets, TLC

(***************************************************************************)
(* Bounds of the model.                                                    *)
(***************************************************************************)
MaxPoints == 3
MaxRecordings == 3
MaxBuilds == 2

(***************************************************************************)
(* JavaScript numbers.                                                     *)
(***************************************************************************)
RECURSIVE GCD(_, _)
GCD(a, b) == IF b = 0 THEN a ELSE GCD(b, a % b)

Abs(a) == IF a < 0 THEN -a ELSE a

Num(n, d) ==
  LET g == GCD(Abs(n), d)
  IN  [k |-> "num", n |-> n \div g, d |-> d \div g]

Int2Num(i) == Num(i, 1)
NaN == [k |-> "nan", n |-> 0, d |-> 1]
Infinity == [k |-> "inf", n |-> 0, d |-> 1]
Undefined == [k |-> "undef", n |-> 0, d |-> 1]

\* typeof v === 'number' : true of NaN and Infinity as well
TypeofNumber(v) == v.k \in {"num", "nan", "inf"}

\* Number.isFinite(v)
IsFinite(v) == v.k = "num"

\* a + b on non-negative operands
JsAdd(a, b) ==
  IF a.k \in {"nan", "undef"} \/ b.k \in {"nan", "undef"} THEN NaN
  ELSE IF a.k = "inf" \/ b.k = "inf" THEN Infinity
  ELSE Num(a.n * b.d + b.n * a.d, a.d * b.d)

\* a * b on non-negative operands
JsMul(a, b) ==
  IF a.k \in {"nan", "undef"} \/ b.k \in {"nan", "undef"} THEN NaN
  ELSE IF a.k = "inf" \/ b.k = "inf"
       THEN IF (a.k = "num" /\ a.n = 0) \/ (b.k = "num" /\ b.n = 0)
            THEN NaN ELSE Infinity
  ELSE Num(a.n * b.n, a.d * b.d)

\* a / b on non-negative operands
JsDiv(a, b) ==
  IF a.k \in {"nan", "undef"} \/ b.k \in {"nan", "undef"} THEN NaN
  ELSE IF b.k = "inf" THEN (IF a.k = "inf" THEN NaN ELSE Num(0, 1))
  ELSE IF b.n = 0 THEN (IF a.k = "num" /\ a.n = 0 THEN NaN ELSE Infinity)
  ELSE IF a.k = "inf" THEN Infinity
  ELSE Num(a.n * b.d, a.d * b.n)

\* v || dflt : 0, NaN and undefined are falsy
OrDefault(v, dflt) ==
  IF v.k \in {"nan", "undef"} \/ (v.k = "num" /\ v.n = 0) THEN dflt ELSE v

Half == Num(1, 2)
One == Num(1, 1)
Two == Num(2, 1)

(***************************************************************************)
(* Rounding.  A JavaScript number is a binary floating-point number: the   *)
(* result of / and * is the exact result rounded to the nearest number     *)
(* with a significand of MantissaBits bits, ties to the even significand.  *)
(* The exponent range is not modelled.                                     *)
(***************************************************************************)
MantissaBits == 5

ExponentRange == 2 * MantissaBits + 4

\* the e with 2^(MantissaBits-1) <= (n/d) / 2^e < 2^MantissaBits
FloatExponent(n, d) ==
  CHOOSE e \in (0 - ExponentRange)..ExponentRange :
    IF e >= 0
    THEN /\ 2^(MantissaBits - 1) * 2^e * d <= n
         /\ n < 2^MantissaBits * 2^e * d
    ELSE /\ 2^(MantissaBits - 1) * d <= n * 2^(0 - e)
         /\ n * 2^(0 - e) < 2^MantissaBits * d

\* sn/sd rounded to an integer, ties to even
NearestEven(sn, sd) ==
  LET fl == sn \div sd
      rem == sn - fl * sd
  IN  IF 2 * rem > sd \/ (2 * rem = sd /\ fl % 2 = 1) THEN fl + 1 ELSE fl

\* variant of FloatRound that drops the bits that do not fit
FloatRoundDown(v) ==
  IF v.k # "num" \/ v.n = 0 THEN v
  ELSE LET e == FloatExponent(v.n, v.d)
       IN  IF e >= 0
           THEN Num((v.n \div (v.d * 2^e)) * 2^e, 1)
           ELSE Num((v.n * 2^(0 - e)) \div v.d, 2^(0 - e))

\* a non-negative real as the nearest JavaScript number
FloatRound(v) ==
  IF v.k # "num" \/ v.n = 0 THEN v
  ELSE LET e == FloatExponent(v.n, v.d)
       IN  IF e >= 0
           THEN Num(NearestEven(v.n, v.d * 2^e) * 2^e, 1)
           ELSE Num(NearestEven(v.n * 2^(0 - e), v.d), 2^(0 - e))

\* a / b and a * b as JavaScript computes them
FloatDiv(a, b) == FloatRound(JsDiv(a, b))
FloatMul(a, b) == FloatRound(JsMul(a, b))

(***************************************************************************)
(* Points.  NoPoint is the JavaScript undefined array entry.               *)
(***************************************************************************)
Pt(x, y, p) == [def |-> TRUE, x |-> x, y |-> y, pressure |-> p]
NoPoint == [def |-> FALSE, x |-> Undefined, y |-> Undefined, pressure |-> Undefined]

\* a point whose coordinates are finite numbers
ValidPoint(pt) == pt.def /\ IsFinite(pt.x) /\ IsFinite(pt.y)

(***************************************************************************)
(* drawSignature: the calls it issues on the 2D context, in order.         *)
(* variant "fixed" is the component that draws in capture coordinates on a *)
(* canvas of the capture size; variant "scaled" is the component that      *)
(* scales capture coordinates to the target size.                          *)
(***************************************************************************)
Zero == Num(0, 1)
Call(op, a, b, c, d) == [op |-> op, a |-> a, b |-> b, c |-> c, d |-> d]

\* window.innerWidth < 600 halves the default width
MobileBreakpoint == 600

getResponsiveBaseLineWidth(defaultWidth, innerWidth) ==
  IF innerWidth < MobileBreakpoint THEN JsMul(defaultWidth, Half) ELSE defaultWidth

\* the guard of the loop body: true when the pair is skipped
SkipPair(current, next) ==
  \/ ~current.def
  \/ ~next.def
  \/ ~TypeofNumber(current.x) \/ ~TypeofNumber(current.y)
  \/ ~TypeofNumber(next.x) \/ ~TypeofNumber(next.y)

\* variant of ScaleCoord that draws in capture coordinates
ScaleCoordNone(variant, v, originalDim, canvasDim) == v

\* a capture coordinate in the coordinates of the drawing surface
ScaleCoord(variant, v, originalDim, canvasDim) ==
  IF variant = "scaled" THEN JsMul(JsDiv(v, originalDim), canvasDim) ELSE v

\* (current.x / originalWidth) * canvasWidth with the rounding of each
\* operation
ScaleCoordFloat(v, originalDim, canvasDim) ==
  FloatMul(FloatDiv(v, originalDim), canvasDim)

MidCoord(a, b) == JsDiv(JsAdd(a, b), Two)

\* current.pressure || 0.5
PressureOrDefault(p) == OrDefault(p, Half)

SegmentLineWidth(variant, a, pressure) ==
  IF variant = "scaled"
  THEN JsMul(JsMul(a.baseLineWidth, JsDiv(a.canvasWidth, a.originalWidth)),
             JsAdd(One, PressureOrDefault(pressure)))
  ELSE JsMul(getResponsiveBaseLineWidth(a.baseLineWidth, a.innerWidth),
             JsAdd(One, PressureOrDefault(pressure)))

\* one iteration of the for loop, i counted from 0
SegmentCalls(a, i) ==
  LET current == a.points[i + 1]
      next == a.points[i + 2]
      currentX == ScaleCoord(a.variant, current.x, a.originalWidth, a.canvasWidth)
      currentY == ScaleCoord(a.variant, current.y, a.originalHeight, a.canvasHeight)
      nextX == ScaleCoord(a.variant, next.x, a.originalWidth, a.canvasWidth)
      nextY == ScaleCoord(a.variant, next.y, a.originalHeight, a.canvasHeight)
      midX == MidCoord(currentX, nextX)
      midY == MidCoord(currentY, nextY)
      lineWidth == SegmentLineWidth(a.variant, a, current.pressure)
  IN  IF SkipPair(current, next) THEN << >>
      ELSE << Call("lineWidth", lineWidth, Zero, Zero, Zero) >>
           \o (IF i = 0 THEN << Call("moveTo", currentX, currentY, Zero, Zero) >>
               ELSE << >>)
           \o << Call("quadraticCurveTo", currentX, currentY, midX, midY) >>

\* variant of LoopEnd that stops one pair early
LoopEndShort(len) == len - 2

\* the last index the loop visits is points.length - 2
LoopEnd(len) == len - 1

RECURSIVE DrawLoop(_, _)
DrawLoop(a, i) ==
  IF i < LoopEnd(Len(a.points))
  THEN SegmentCalls(a, i) \o DrawLoop(a, i + 1)
  ELSE << >>

drawSignature(a) ==
  IF Len(a.points) = 0 THEN << >>
  ELSE << (IF a.background = "white"
           THEN Call("fillRect", Zero, Zero, a.canvasWidth, a.canvasHeight)
           ELSE Call("clearRect", Zero, Zero, a.canvasWidth, a.canvasHeight)) >>
       \o << Call("beginPath", Zero, Zero, Zero, Zero) >>
       \o DrawLoop(a, 0)
       \o << Call("stroke", Zero, Zero, Zero, Zero) >>

(***************************************************************************)
(* The 2D context: stroke() strokes the whole current path with the line   *)
(* width in force when it is called; a path call with a non-finite         *)
(* argument is ignored, and so is a non-finite or non-positive line width; *)
(* a fresh context has line width 1.                                       *)
(***************************************************************************)
FiniteArgs(c) == IsFinite(c.a) /\ IsFinite(c.b) /\ IsFinite(c.c) /\ IsFinite(c.d)

RECURSIVE PathOf(_)
PathOf(calls) ==
  IF calls = << >> THEN << >>
  ELSE LET c == Head(calls)
           rest == PathOf(Tail(calls))
       IN  IF c.op = "quadraticCurveTo" /\ FiniteArgs(c) THEN << c >> \o rest
           ELSE rest

RECURSIVE WidthAtStroke(_, _)
WidthAtStroke(calls, w) ==
  IF calls = << >> THEN w
  ELSE LET c == Head(calls)
       IN  IF c.op = "stroke" THEN w
           ELSE IF c.op = "lineWidth" /\ IsFinite(c.a) /\ c.a.n > 0
                THEN WidthAtStroke(Tail(calls), c.a)
                ELSE WidthAtStroke(Tail(calls), w)

\* the curves put on the surface, each with the width it is stroked with
Strokes(calls) ==
  LET path == PathOf(calls)
      w == WidthAtStroke(calls, One)
  IN  [j \in 1..Len(path) |-> [cx |-> path[j].a, cy |-> path[j].b,
                               x |-> path[j].c, y |-> path[j].d, width |-> w]]

(***************************************************************************)
(* A canvas: its background and the curves stroked on it.  A new canvas,   *)
(* and one whose width was just set, is transparent and empty.  The calls  *)
(* of drawSignature are run in order: fillRect and clearRect cover the     *)
(* whole canvas and remove what was on it.                                 *)
(***************************************************************************)
BlankSurface == [bg |-> "transparent", strokes |-> << >>]

RECURSIVE RunCalls(_, _, _, _)
RunCalls(calls, surf, path, w) ==
  IF calls = << >> THEN surf
  ELSE LET c == Head(calls)
           t == Tail(calls)
       IN  CASE c.op = "fillRect" ->
                  RunCalls(t, [bg |-> "white", strokes |-> << >>], path, w)
             [] c.op = "clearRect" ->
                  RunCalls(t, [bg |-> "transparent", strokes |-> << >>], path, w)
             [] c.op = "beginPath" -> RunCalls(t, surf, << >>, w)
             [] c.op = "lineWidth" ->
                  RunCalls(t, surf, path,
                           IF IsFinite(c.a) /\ c.a.n > 0 THEN c.a ELSE w)
             [] c.op = "quadraticCurveTo" ->
                  RunCalls(t, surf, IF FiniteArgs(c) THEN Append(path, c) ELSE path, w)
             [] c.op = "stroke" ->
                  RunCalls(t, [surf EXCEPT !.strokes =
                                 @ \o [j \in 1..Len(path) |->
                                         [cx |-> path[j].a, cy |-> path[j].b,
                                          x |-> path[j].c, y |-> path[j].d,
                                          width |-> w]]],
                           path, w)
             [] OTHER -> RunCalls(t, surf, path, w)

\* the canvas after the calls of one drawSignature
Paint(surf, calls) == RunCalls(calls, surf, << >>, One)

\* the size of the temporary canvas of handleDownload: the capture size in
\* the "fixed" component, the container size in the "scaled" one
ExportWidth(a) == IF a.variant = "fixed" THEN a.originalWidth ELSE a.canvasWidth
ExportHeight(a) == IF a.variant = "fixed" THEN a.originalHeight ELSE a.canvasHeight

\* variant of handleDownload that leaves the background argument out
handleDownloadOpaque(a) ==
  IF Len(a.points) = 0 THEN << >>
  ELSE drawSignature([a EXCEPT !.canvasWidth = ExportWidth(a),
                               !.canvasHeight = ExportHeight(a)])

\* handleDownload: the calls on the context of the temporary canvas
handleDownload(a) ==
  IF Len(a.points) = 0 THEN << >>
  ELSE drawSignature([a EXCEPT !.canvasWidth = ExportWidth(a),
                               !.canvasHeight = ExportHeight(a),
                               !.background = "transparent"])

(***************************************************************************)
(* State.  Frame ids and closure slots are only ever compared for          *)
(* equality, so a fresh one is the least one that nothing still holds.     *)
(***************************************************************************)
VARIABLES
  \* one call of drawSignature
  drawArgs,        \* its arguments and the props it reads
  drawCalls,       \* the context calls it issued
  drawDone,        \* the call has returned
  exportCalls,     \* the context calls of handleDownload
  exportDone,      \* handleDownload has returned
  \* the canvas of SignatureRecreate
  surface,         \* what the canvas holds
  containerWidth,  \* container.clientWidth
  resizable,       \* the window can be resized
  resizePoints,    \* currentPoints as the registered resizeCanvas sees it
  \* SignatureCapture
  padData,         \* signaturePad.toData(): the strokes, each a point sequence
  flatData,        \* flatData of handleComplete
  captureDone,     \* handleComplete has returned
  isEmpty,         \* useState of SignatureCapture
  padOutput,       \* what the last Process or Download click did
  appData,         \* useState of App: signatureData
  appSize,         \* useState of App: originalSize, width 0 when null
  \* one coordinate scaled to a surface
  scaleArgs,       \* the coordinate, the capture size and the surface size
  scaleResult,     \* the coordinate on the surface
  scaleDone,       \* it has been computed
  \* the display region: both components get the same props
  mounted,         \* SignatureRecreate and SignatureModel are mounted
  signatureData,   \* the signatureData prop
  event,           \* the last event: its name and what it found
  \* SignatureRecreate (2D)
  variant,         \* "fixed" or "scaled" component
  currentPoints,   \* useState: the revealed points
  isAnimating,     \* useState
  animationRef,    \* useRef: last requested frame id, 0 when undefined
  rafPending2,     \* frame callbacks requested and neither run nor cancelled
  closures,        \* per reveal: signatureData and currentIndex of animate
  currentRun,      \* slot of the reveal started last, 0 when it is over
  ticks2,          \* frame callbacks of the reveal started last that have run
  \* SignatureModel (3D)
  sceneRef,        \* scene, camera, renderer and controls refs are set
  animationIdRef,  \* useRef: last requested frame id, 0 when null
  rafPending3,     \* frame ids requested and neither run nor cancelled
  meshRef,         \* useRef: slot of the current mesh, 0 when null
  materialRef,     \* useRef: slot of the mesh whose material it is, 0 when null
  sceneMeshes,     \* slots of the meshes attached to the scene
  meshes           \* per mesh slot: built, dashOffset, disposed, samples

drawVars == << drawArgs, drawCalls, drawDone, exportCalls, exportDone >>
canvasVars == << surface, containerWidth, resizable, resizePoints >>
captureVars == << padData, flatData, captureDone, isEmpty, padOutput,
                 appData, appSize >>
scaleVars == << scaleArgs, scaleResult, scaleDone >>
envVars == << mounted, signatureData, event >>
vars2 == << variant, currentPoints, isAnimating, animationRef, rafPending2,
            closures, currentRun, ticks2 >>
vars3 == << sceneRef, animationIdRef, rafPending3, meshRef, materialRef,
            sceneMeshes, meshes >>
vars == << drawVars, canvasVars, captureVars, scaleVars, envVars, vars2, vars3 >>

(***************************************************************************)
(* Inputs of drawSignature.                                                *)
(***************************************************************************)
DrawLen == 3
BaseLineWidthDefault == 2

P05 == Num(1, 2)
P08 == Num(4, 5)
X0 == Int2Num(0)
X10 == Int2Num(10)

DrawPoints ==
  { Pt(X0, X0, P05), Pt(X10, X0, P05), Pt(X10, X10, P05),
    Pt(X10, X10, Zero), Pt(X0, X10, P08),
    Pt(NaN, X10, P08), Pt(X10, Infinity, P05), Pt(Undefined, X0, P05),
    NoPoint }

SeqsUpTo(S, n) == UNION { [1..m -> S] : m \in 0..n }

\* <<originalWidth, originalHeight, canvasWidth, canvasHeight>>
DrawDims == { <<20, 20, 40, 40>>, <<20, 20, 20, 20>>, <<40, 20, 20, 10>> }

InnerWidths == { 500, 1024 }

\* the "fixed" component always draws at the capture size
DrawInputs ==
  { a \in { [variant |-> v, points |-> pts,
             originalWidth |-> Int2Num(dm[1]), originalHeight |-> Int2Num(dm[2]),
             canvasWidth |-> Int2Num(dm[3]), canvasHeight |-> Int2Num(dm[4]),
             baseLineWidth |-> Int2Num(BaseLineWidthDefault),
             innerWidth |-> iw, background |-> bg] :
            v \in {"fixed", "scaled"}, pts \in SeqsUpTo(DrawPoints, DrawLen),
            dm \in DrawDims, iw \in InnerWidths,
            bg \in {"white", "transparent"} } :
    a.variant = "fixed" =>
      (a.canvasWidth = a.originalWidth /\ a.canvasHeight = a.originalHeight) }

\* <<originalWidth, originalHeight>> of a recording whose capture container
\* had no width when handleComplete read container.clientWidth, or whose
\* height prop is 0
ZeroDims == { <<0, 20>>, <<20, 0>>, <<0, 0>> }

DimPoints == { Pt(X0, X0, P05), Pt(X10, X0, P05), Pt(X10, X10, P08) }

\* drawSignature as the component calls it for such a recording: the
\* "fixed" canvas has the capture size, the "scaled" one its container's
DimInputs ==
  { [variant |-> v, points |-> pts,
     originalWidth |-> Int2Num(dm[1]), originalHeight |-> Int2Num(dm[2]),
     canvasWidth |-> IF v = "fixed" THEN Int2Num(dm[1]) ELSE Int2Num(40),
     canvasHeight |-> IF v = "fixed" THEN Int2Num(dm[2]) ELSE Int2Num(20),
     baseLineWidth |-> Int2Num(BaseLineWidthDefault),
     innerWidth |-> 1024, background |-> "white"] :
    v \in {"fixed", "scaled"}, pts \in SeqsUpTo(DimPoints, DrawLen),
    dm \in ZeroDims }

(***************************************************************************)
(* Recordings delivered to the display region.                             *)
(***************************************************************************)
PointN(i) == Pt(Int2Num(10 * i), X0, P05)

Recordings ==
  { [i \in 1..n |-> PointN(i)] : n \in 0..MaxPoints }
  \cup { [i \in 1..n |-> PointN(n + 1 - i)] : n \in 2..MaxPoints }

\* signatureData[i], i counted from 0: undefined past the end
At(data, i) == IF i < Len(data) THEN data[i + 1] ELSE NoPoint

(***************************************************************************)
(* SignatureCapture: handleComplete flattens the strokes of the pad into   *)
(* the recording.                                                          *)
(***************************************************************************)
MaxStrokes == 2
MaxPadPoints == 3

RawPt(x, y, time, p) == [x |-> x, y |-> y, time |-> time, pressure |-> p]

\* points the pad may hold: plain, pressure 0, pressure absent, NaN
\* coordinate, time absent
RawPoints ==
  { RawPt(X0, X0, Int2Num(1), P05),
    RawPt(X10, X0, Int2Num(2), Zero),
    RawPt(X10, X10, Int2Num(3), Undefined),
    RawPt(NaN, X10, Int2Num(4), P08),
    RawPt(X0, X10, Undefined, P05) }

\* the stroke sequences of at most s strokes and n points in all
RECURSIVE PadDatas(_, _)
PadDatas(n, s) ==
  IF s = 0 THEN { << >> }
  ELSE { << >> } \cup
       UNION { { << st >> \o rest : st \in [1..m -> RawPoints],
                                    rest \in PadDatas(n - m, s - 1) } :
               m \in 0..n }

\* the typeof checks of the inner forEach: true when the point is pushed
PushesPoint(pt) ==
  TypeofNumber(pt.x) /\ TypeofNumber(pt.y) /\ TypeofNumber(pt.time)

\* the Point pushed on flatData
FlatPoint(pt) ==
  [x |-> pt.x, y |-> pt.y, timestamp |-> pt.time,
   pressure |-> OrDefault(pt.pressure, Half)]

RECURSIVE StrokePoints(_)
StrokePoints(points) ==
  IF points = << >> THEN << >>
  ELSE (IF PushesPoint(Head(points)) THEN << FlatPoint(Head(points)) >> ELSE << >>)
       \o StrokePoints(Tail(points))

\* data.forEach over the strokes; a stroke without points is passed over
RECURSIVE handleComplete(_)
handleComplete(data) ==
  IF data = << >> THEN << >>
  ELSE StrokePoints(Head(data)) \o handleComplete(Tail(data))

\* the strokes a user draws on the pad
PadStrokes ==
  { << RawPt(X0, X0, Int2Num(1), P05) >>,
    << RawPt(X0, X0, Int2Num(1), P05), RawPt(X10, X0, Int2Num(2), Zero) >>,
    << RawPt(X10, X10, Int2Num(3), Undefined) >> }

NoOutput == [op |-> "none", called |-> FALSE, data |-> << >>]

\* variant of Delivers without the check of flatData.length
DeliversUnchecked(empty, flat) == ~empty

\* handleComplete reaches onSignatureComplete(flatData, cssWidth, cssHeight)
Delivers(empty, flat) == ~empty /\ Len(flat) > 0

\* resizeCanvas of SignatureCapture: the pad is cleared and replaced by a
\* new one; isEmpty is not set
resizePad(pad, empty) == [pad |-> << >>, empty |-> empty]

\* handleClear
handleClear(pad, empty) == [pad |-> << >>, empty |-> TRUE]

\* what is rendered below the capture component:
\* signatureData.length > 0 && originalSize
DisplayRendered(data, size) == Len(data) > 0 /\ size # 0

(***************************************************************************)
(* SignatureRecreate: the animate effect.                                  *)
(***************************************************************************)
NoClosure == [data |-> << >>, currentIndex |-> 0, attached |-> FALSE]

Ids(pend) == { cb.id : cb \in pend }

\* requestAnimationFrame returns an id nothing holds
FreshId(used) ==
  CHOOSE n \in 1..(Cardinality(used) + 1) :
    n \notin used /\ \A m \in 1..(n - 1) : m \in used

cancelAnimationFrame(pend, id) == { cb \in pend : cb.id # id }

\* variant of CancelRef that never cancels
CancelRefNever(pend, ref) == pend

\* if (animationRef.current) cancelAnimationFrame(animationRef.current)
CancelRef(pend, ref) == IF ref # 0 THEN cancelAnimationFrame(pend, ref) ELSE pend

\* closures that no pending callback refers to are garbage
Collect(cl, pend) ==
  [r \in DOMAIN cl |-> IF \E cb \in pend : cb.run = r THEN cl[r] ELSE NoClosure]

FreeSlots(cl, pend) == { r \in DOMAIN cl : \A cb \in pend : cb.run # r }

State2 ==
  [cp |-> currentPoints, anim |-> isAnimating, ref |-> animationRef,
   pend |-> rafPending2, cl |-> closures, run |-> currentRun, ticks |-> ticks2]

\* a new component instance: useState and useRef initial values; the
\* callbacks of an earlier instance keep their own state
FreshState2(s) ==
  [s EXCEPT !.cp = << >>, !.anim = FALSE, !.ref = 0, !.run = 0, !.ticks = 0]

\* variant of animateCleanup that leaves the frame callback pending
animateCleanupNone(s) == s

\* the cleanup the animate effect returns
animateCleanup(s) == [s EXCEPT !.pend = CancelRef(s.pend, s.ref)]

\* the body of the animate effect
animateEffect(s, data) ==
  IF Len(data) = 0 THEN s
  ELSE LET pend1 == CancelRef(s.pend, s.ref)
           r == CHOOSE x \in FreeSlots(s.cl, pend1) :
                  \A y \in FreeSlots(s.cl, pend1) : x <= y
           id == FreshId(Ids(pend1) \cup {s.ref})
       IN  [s EXCEPT !.pend = pend1 \cup {[id |-> id, run |-> r]},
                     !.anim = TRUE,
                     !.cp = << >>,
                     !.cl = [Collect(s.cl, pend1) EXCEPT
                               ![r] = [data |-> data, currentIndex |-> 0,
                                       attached |-> TRUE]],
                     !.ref = id,
                     !.run = r,
                     !.ticks = 0]

\* the cleanup of the resize effect of the "scaled" component
resizeCleanup(v, s) ==
  IF v = "scaled" THEN [s EXCEPT !.pend = CancelRef(s.pend, s.ref)] ELSE s

\* variant of RevealFinished that stops one frame late
RevealFinishedLate(currentIndex, len) == currentIndex > len

\* if (currentIndex >= signatureData.length)
RevealFinished(currentIndex, len) == currentIndex >= len

\* the element the updater prev => [...prev, signatureData[currentIndex]]
\* appends: evaluated at once it reads currentIndex before the increment,
\* evaluated at render time it reads it after
UpdaterElement(c, eager) ==
  IF eager THEN At(c.data, c.currentIndex) ELSE At(c.data, c.currentIndex + 1)

\* one run of the frame callback animate of closure cb.run, with the
\* render that follows it
animate(s, cb, eager) ==
  LET c == s.cl[cb.run]
      pend0 == s.pend \ {cb}
  IN  IF RevealFinished(c.currentIndex, Len(c.data))
      THEN [s EXCEPT !.pend = pend0,
                     !.cl = Collect(s.cl, pend0),
                     !.anim = IF c.attached THEN FALSE ELSE s.anim,
                     !.run = IF cb.run = s.run /\ c.attached THEN 0 ELSE s.run,
                     !.ticks = IF cb.run = s.run /\ c.attached
                               THEN s.ticks + 1 ELSE s.ticks]
      ELSE LET id == FreshId(Ids(pend0) \cup {s.ref})
           IN  [s EXCEPT !.pend = pend0 \cup {[id |-> id, run |-> cb.run]},
                         !.cl = [s.cl EXCEPT ![cb.run].currentIndex = c.currentIndex + 1],
                         !.cp = IF c.attached
                                THEN Append(s.cp, UpdaterElement(c, eager))
                                ELSE s.cp,
                         !.ref = IF c.attached THEN id ELSE s.ref,
                         !.ticks = IF cb.run = s.run /\ c.attached
                                   THEN s.ticks + 1 ELSE s.ticks]

\* unmounting detaches every closure of the instance
Detach(s) ==
  [s EXCEPT !.cl = [r \in DOMAIN s.cl |-> [s.cl[r] EXCEPT !.attached = FALSE]],
            !.run = 0]

Set2(s) ==
  /\ currentPoints' = s.cp
  /\ isAnimating' = s.anim
  /\ animationRef' = s.ref
  /\ rafPending2' = s.pend
  /\ closures' = Collect(s.cl, s.pend)
  /\ currentRun' = s.run
  /\ ticks2' = s.ticks

(***************************************************************************)
(* SignatureRecreate: what its effects and listeners put on the canvas.    *)
(* The recording is captured at CaptureSize x CaptureSize.  The "fixed"    *)
(* component has a canvas of the capture size; the "scaled" one sizes the  *)
(* canvas to its container, containerWidth wide and                        *)
(* containerWidth * height / width high.                                   *)
(***************************************************************************)
CaptureSize == 20
ContainerWidths == { 20, 40 }
DefaultWidth == 400
DefaultHeight == 200

\* the arguments and props of a drawSignature call of the component
ComponentArgs(v, points, cw) ==
  [variant |-> v, points |-> points,
   originalWidth |-> Int2Num(CaptureSize), originalHeight |-> Int2Num(CaptureSize),
   canvasWidth |-> IF v = "scaled" THEN Int2Num(cw) ELSE Int2Num(CaptureSize),
   canvasHeight |-> IF v = "scaled"
                    THEN JsDiv(JsMul(Int2Num(cw), Int2Num(DefaultHeight)),
                               Int2Num(DefaultWidth))
                    ELSE Int2Num(CaptureSize),
   baseLineWidth |-> Int2Num(BaseLineWidthDefault),
   innerWidth |-> 1024, background |-> "white"]

\* the "Draw when points change" effect
drawEffect(v, surf, points, cw) ==
  Paint(surf, drawSignature(ComponentArgs(v, points, cw)))

\* resizeCanvas: setting canvas.width empties the canvas, then the points
\* the function closed over are drawn; the "fixed" component has none
resizeCanvas(v, surf, points, cw) ==
  IF v = "scaled"
  THEN Paint(BlankSurface, drawSignature(ComponentArgs(v, points, cw)))
  ELSE surf

\* the animate effect fills the canvas white; setCurrentPoints([]) then
\* makes the draw effect run on the empty sequence
animateCanvas(v, surf, data, cw) ==
  IF Len(data) = 0 THEN surf
  ELSE drawEffect(v, [bg |-> "white", strokes |-> << >>], << >>, cw)

\* the resize effect registers resizeCanvas, which closes over the
\* currentPoints of that render; in a window that is never resized nothing
\* can call it, and what it closed over is not kept
registerResize(v, listens, points, registered) ==
  IF v = "scaled" /\ listens THEN points ELSE registered

\* the draw effect runs when a frame callback changed currentPoints
tickCanvas(v, surf, before, after, cw) ==
  IF after # before THEN drawEffect(v, surf, after, cw) ELSE surf

(***************************************************************************)
(* SignatureModel: scene set-up, animation loop and ribbon build.          *)
(* Dash offsets are in thousandths.                                        *)
(***************************************************************************)
DashStep == 3

\* total lengths the resampled centerline of a recording may have
TotalLengths == { 0, 4, 7 }

\* rawPoints.length * 10
SampleMultiplier == 10

\* Curve.getPoints(divisions) returns the points at t = 0/divisions ..
\* divisions/divisions
getPoints(divisions) == divisions + 1

\* number of points curve.getPoints(rawPoints.length * 10) returns
CenterlineSamples(data) == getPoints(Len(data) * SampleMultiplier)

NoMesh == [built |-> FALSE, dashOffset |-> 0, disposed |-> FALSE, samples |-> 0]

Max(a, b) == IF a >= b THEN a ELSE b
Min(a, b) == IF a <= b THEN a ELSE b

State3 ==
  [scene |-> sceneRef, idref |-> animationIdRef, pend |-> rafPending3,
   mesh |-> meshRef, mat |-> materialRef, inScene |-> sceneMeshes,
   meshes |-> meshes]

\* a new component instance: every ref is null, nothing is built
FreshState3(s) ==
  [s EXCEPT !.scene = FALSE, !.idref = 0, !.mesh = 0, !.mat = 0,
            !.inScene = {}, !.meshes = [m \in DOMAIN s.meshes |-> NoMesh]]

\* variant of cleanup that does not cancel the animation frame
cleanupKeepsFrame(s) ==
  [s EXCEPT !.inScene = {}, !.scene = FALSE, !.mesh = 0, !.mat = 0]

\* cleanup of the init effect
cleanup(s) ==
  [s EXCEPT !.pend = IF s.idref # 0
                     THEN { cb \in s.pend : cb.id # s.idref } ELSE s.pend,
            !.inScene = {},
            !.scene = FALSE,
            !.mesh = 0,
            !.mat = 0]

\* variant of NextDashOffset without the clamp
NextDashOffsetUnclamped(currentOffset) ==
  IF currentOffset > 0 THEN currentOffset - DashStep ELSE currentOffset

\* Math.max(0, currentOffset - 0.003) when currentOffset > 0
NextDashOffset(currentOffset) ==
  IF currentOffset > 0 THEN Max(0, currentOffset - DashStep) ELSE currentOffset

\* the body of animate, run by the instance that owns refs s
animate3(s) ==
  IF ~s.scene THEN s
  ELSE LET id == FreshId(Ids(s.pend) \cup {s.idref})
       IN  [s EXCEPT !.pend = s.pend \cup {[id |-> id, attached |-> TRUE]},
                     !.idref = id,
                     !.meshes = IF s.mat # 0
                                THEN [s.meshes EXCEPT ![s.mat].dashOffset =
                                        NextDashOffset(s.meshes[s.mat].dashOffset)]
                                ELSE s.meshes]

\* the init layout effect: cleanup, create the scene, start the loop
initEffect(s) == animate3([cleanup(s) EXCEPT !.scene = TRUE])

\* variant of DataEffectSkips without the check for an empty recording
DataEffectSkipsNoScene(s, data) == ~s.scene

\* the data effect returns at once
DataEffectSkips(s, data) == ~s.scene \/ Len(data) = 0

\* CatmullRomCurve3.getPoints fails on a curve of one point
DataEffectThrows(s, data) == ~DataEffectSkips(s, data) /\ Len(data) = 1

\* "Clean up existing mesh"
removeMesh(s) ==
  IF s.mesh # 0
  THEN [s EXCEPT !.inScene = s.inScene \ {s.mesh},
                 !.meshes = [s.meshes EXCEPT ![s.mesh].disposed = TRUE]]
  ELSE s

\* dashOffset: totalLength
InitialDashOffset(totalLength) == totalLength

\* the data effect on a recording it can build; the replaced mesh is
\* referenced by nothing afterwards
dataEffect(s, data, totalLength) ==
  IF DataEffectSkips(s, data) THEN s
  ELSE LET s1 == removeMesh(s)
           m == CHOOSE x \in DOMAIN s1.meshes :
                  /\ ~s1.meshes[x].built
                  /\ \A y \in DOMAIN s1.meshes : ~s1.meshes[y].built => x <= y
           ms == [s1.meshes EXCEPT
                    ![m] = [built |-> TRUE,
                            dashOffset |-> InitialDashOffset(totalLength),
                            disposed |-> FALSE,
                            samples |-> CenterlineSamples(data)]]
       IN  [s1 EXCEPT !.meshes = [x \in DOMAIN ms |->
                                    IF x = s.mesh THEN NoMesh ELSE ms[x]],
                      !.mat = m,
                      !.inScene = s1.inScene \cup {m},
                      !.mesh = m]

Set3(s) ==
  /\ sceneRef' = s.scene
  /\ animationIdRef' = s.idref
  /\ rafPending3' = s.pend
  /\ meshRef' = s.mesh
  /\ materialRef' = s.mat
  /\ sceneMeshes' = s.inScene
  /\ meshes' = s.meshes

(***************************************************************************)
(* Events of the display region.                                           *)
(***************************************************************************)
\* the animate effect returned a cleanup the last time it ran
AnimateCleanupIf(s, data) == IF Len(data) > 0 THEN animateCleanup(s) ELSE s

\* SignatureRecreate is removed: the cleanups of its effects run
Unmounted2(v, s, data) == Detach(resizeCleanup(v, AnimateCleanupIf(s, data)))

\* SignatureModel is removed: cleanup runs
Unmounted3(s) ==
  LET s1 == cleanup(s)
  IN  [s1 EXCEPT !.pend = { [id |-> cb.id, attached |-> FALSE] : cb \in s1.pend }]

Ev(name) == [name |-> name, busy |-> (rafPending2 # {})]

\* at most MaxRecordings reveals have callbacks pending at once
CanStart(s, data) ==
  Len(data) = 0 \/ FreeSlots(s.cl, CancelRef(s.pend, s.ref)) # {}

\* the region is mounted with a recording; an error thrown by an effect
\* unmounts the whole tree
Mount(data, totalLength) ==
  /\ ~mounted
  /\ CanStart(FreshState2(State2), data)
  /\ LET s2 == animateEffect(FreshState2(State2), data)
         s3 == initEffect(FreshState3(State3))
     IN  IF DataEffectThrows(s3, data)
         THEN /\ Set2(Unmounted2(variant, s2, data))
              /\ Set3(Unmounted3(removeMesh(s3)))
              /\ surface' = BlankSurface
              /\ mounted' = FALSE
              /\ event' = Ev("error")
         ELSE /\ Set2(s2)
              /\ Set3(dataEffect(s3, data, totalLength))
              /\ surface' = animateCanvas(variant,
                                resizeCanvas(variant, BlankSurface, << >>, containerWidth),
                                data, containerWidth)
              /\ mounted' = TRUE
              /\ event' = Ev("mount")
  /\ resizePoints' = << >>
  /\ signatureData' = data
  /\ UNCHANGED << drawVars, captureVars, scaleVars, containerWidth, resizable, variant >>

\* a new signatureData array arrives
NewRecording(data, totalLength) ==
  /\ mounted
  /\ CanStart(AnimateCleanupIf(State2, signatureData), data)
  /\ LET s2 == animateEffect(AnimateCleanupIf(State2, signatureData), data)
     IN  IF DataEffectThrows(State3, data)
         THEN /\ Set2(Unmounted2(variant, s2, data))
              /\ Set3(Unmounted3(removeMesh(State3)))
              /\ surface' = BlankSurface
              /\ resizePoints' = << >>
              /\ mounted' = FALSE
              /\ event' = Ev("error")
         ELSE /\ Set2(s2)
              /\ Set3(dataEffect(State3, data, totalLength))
              /\ surface' = animateCanvas(variant, surface, data, containerWidth)
              /\ resizePoints' = resizePoints
              /\ mounted' = TRUE
              /\ event' = Ev("newRecording")
  /\ signatureData' = data
  /\ UNCHANGED << drawVars, captureVars, scaleVars, containerWidth, resizable, variant >>

\* the width and height props change, signatureData does not
PropChange(totalLength) ==
  /\ mounted
  /\ Set2(resizeCleanup(variant, State2))
  /\ Set3(dataEffect(State3, signatureData, totalLength))
  /\ surface' = resizeCanvas(variant, surface, currentPoints, containerWidth)
  /\ resizePoints' = registerResize(variant, resizable, currentPoints, resizePoints)
  /\ event' = Ev("propChange")
  /\ UNCHANGED << drawVars, captureVars, scaleVars, containerWidth, resizable, variant,
                  mounted, signatureData >>

Unmount ==
  /\ mounted
  /\ Set2(Unmounted2(variant, State2, signatureData))
  /\ Set3(Unmounted3(State3))
  /\ surface' = BlankSurface
  /\ resizePoints' = << >>
  /\ mounted' = FALSE
  /\ event' = Ev("unmount")
  /\ UNCHANGED << drawVars, captureVars, scaleVars, containerWidth, resizable, variant,
                  signatureData >>

\* the window is resized: the container gets a width and the registered
\* resizeCanvas runs
Resize(cw) ==
  /\ mounted
  /\ resizable
  /\ containerWidth' = cw
  /\ surface' = resizeCanvas(variant, surface, resizePoints, cw)
  /\ event' = Ev("resize")
  /\ UNCHANGED << drawVars, captureVars, scaleVars, resizable, resizePoints, variant,
                  mounted, signatureData, vars2, vars3 >>

\* a frame callback of SignatureRecreate runs
Tick2D(cb, eager) ==
  /\ cb \in rafPending2
  /\ Set2(animate(State2, cb, eager))
  /\ surface' = tickCanvas(variant, surface, currentPoints,
                           animate(State2, cb, eager).cp, containerWidth)
  /\ event' = Ev("tick2")
  /\ UNCHANGED << drawVars, captureVars, scaleVars, containerWidth, resizable, resizePoints,
                  variant, mounted, signatureData, vars3 >>

\* a frame callback of SignatureModel runs; a callback of a removed
\* instance finds its refs null
Tick3D(cb) ==
  /\ cb \in rafPending3
  /\ LET s == [State3 EXCEPT !.pend = rafPending3 \ {cb}]
     IN  Set3(IF cb.attached THEN animate3(s) ELSE s)
  /\ event' = Ev("tick3")
  /\ UNCHANGED << drawVars, canvasVars, captureVars, scaleVars, variant, mounted,
                  signatureData, vars2 >>

\* one call of drawSignature
Draw ==
  /\ ~drawDone
  /\ drawCalls' = drawSignature(drawArgs)
  /\ drawDone' = TRUE
  /\ surface' = Paint(surface, drawSignature(drawArgs))
  /\ UNCHANGED << drawArgs, exportCalls, exportDone, containerWidth, resizable,
                  resizePoints, captureVars, scaleVars, envVars, vars2, vars3 >>

\* Download PNG on the points and size of the call
Download ==
  /\ drawDone
  /\ ~exportDone
  /\ drawArgs.background = "white"
  /\ exportCalls' = handleDownload(drawArgs)
  /\ exportDone' = TRUE
  /\ UNCHANGED << drawArgs, drawCalls, drawDone, canvasVars, captureVars,
                  scaleVars, envVars,
                  vars2, vars3 >>

\* the pad's data is turned into the recording
Complete ==
  /\ ~captureDone
  /\ flatData' = handleComplete(padData)
  /\ captureDone' = TRUE
  /\ UNCHANGED << padData, isEmpty, padOutput, appData, appSize, drawVars,
                  canvasVars, scaleVars, envVars, vars2, vars3 >>

\* the user draws a stroke: beginStroke sets isEmpty to false
PadStroke(stroke) ==
  /\ Len(padData) < MaxStrokes
  /\ padData' = Append(padData, stroke)
  /\ isEmpty' = FALSE
  /\ padOutput' = NoOutput
  /\ UNCHANGED << flatData, captureDone, appData, appSize, drawVars, canvasVars,
                  scaleVars, envVars, vars2, vars3 >>

\* the Clear button
PadClear ==
  /\ padData' = handleClear(padData, isEmpty).pad
  /\ isEmpty' = handleClear(padData, isEmpty).empty
  /\ padOutput' = NoOutput
  /\ UNCHANGED << flatData, captureDone, appData, appSize, drawVars, canvasVars,
                  scaleVars, envVars, vars2, vars3 >>

\* the window is resized or turned: resizeCanvas of SignatureCapture runs
PadResize ==
  /\ padData' = resizePad(padData, isEmpty).pad
  /\ isEmpty' = resizePad(padData, isEmpty).empty
  /\ padOutput' = NoOutput
  /\ UNCHANGED << flatData, captureDone, appData, appSize, drawVars, canvasVars,
                  scaleVars, envVars, vars2, vars3 >>

\* the Process Signature button, enabled when isEmpty is false:
\* handleComplete, and handleSignatureComplete of App when it is called
PadProcess ==
  /\ ~isEmpty
  /\ flatData' = handleComplete(padData)
  /\ padOutput' = [op |-> "process",
                   called |-> Delivers(isEmpty, handleComplete(padData)),
                   data |-> handleComplete(padData)]
  /\ IF Delivers(isEmpty, handleComplete(padData))
     THEN appData' = handleComplete(padData) /\ appSize' = CaptureSize
     ELSE UNCHANGED << appData, appSize >>
  /\ UNCHANGED << padData, captureDone, isEmpty, drawVars, canvasVars,
                  scaleVars, envVars, vars2, vars3 >>

\* the Download PNG button of SignatureCapture, enabled when isEmpty is
\* false: the strokes of toData() are drawn on a temporary pad
PadDownload ==
  /\ ~isEmpty
  /\ padOutput' = [op |-> "download", called |-> TRUE, data |-> padData]
  /\ UNCHANGED << padData, flatData, captureDone, isEmpty, appData, appSize,
                  drawVars, canvasVars, scaleVars, envVars, vars2, vars3 >>

\* one coordinate is scaled from the capture size to the surface size
Scale ==
  /\ ~scaleDone
  /\ scaleResult' = ScaleCoordFloat(scaleArgs.v, scaleArgs.originalDim,
                                    scaleArgs.canvasDim)
  /\ scaleDone' = TRUE
  /\ UNCHANGED << scaleArgs, drawVars, canvasVars, captureVars, envVars,
                  vars2, vars3 >>

ScaleIdle ==
  /\ scaleArgs = [v |-> Zero, originalDim |-> One, canvasDim |-> One]
  /\ scaleResult = Zero
  /\ scaleDone = TRUE

PadIdle ==
  /\ isEmpty = TRUE
  /\ padOutput = NoOutput
  /\ appData = << >>
  /\ appSize = 0

CaptureIdle ==
  /\ padData = << >>
  /\ flatData = << >>
  /\ captureDone = TRUE
  /\ PadIdle

DrawIdle ==
  /\ drawArgs = [variant |-> "fixed", points |-> << >>,
                 originalWidth |-> One, originalHeight |-> One,
                 canvasWidth |-> One, canvasHeight |-> One,
                 baseLineWidth |-> Int2Num(BaseLineWidthDefault),
                 innerWidth |-> 1024, background |-> "white"]
  /\ drawCalls = << >>
  /\ drawDone = TRUE
  /\ exportCalls = << >>
  /\ exportDone = TRUE

RegionIdle ==
  /\ mounted = FALSE
  /\ signatureData = << >>
  /\ event = [name |-> "init", busy |-> FALSE]
  /\ currentPoints = << >>
  /\ isAnimating = FALSE
  /\ animationRef = 0
  /\ rafPending2 = {}
  /\ closures = [r \in 1..MaxRecordings |-> NoClosure]
  /\ currentRun = 0
  /\ ticks2 = 0
  /\ sceneRef = FALSE
  /\ animationIdRef = 0
  /\ rafPending3 = {}
  /\ meshRef = 0
  /\ materialRef = 0
  /\ sceneMeshes = {}
  /\ meshes = [m \in 1..MaxBuilds |-> NoMesh]
  /\ resizePoints = << >>

\* the display region, not yet mounted
InitRegion ==
  /\ DrawIdle
  /\ CaptureIdle
  /\ ScaleIdle
  /\ RegionIdle
  /\ variant \in {"fixed", "scaled"}
  /\ surface = BlankSurface
  /\ containerWidth = CaptureSize

\* the display region in a window of constant size
Init == InitRegion /\ resizable = FALSE

Next ==
  \/ \E data \in Recordings, l \in TotalLengths : Mount(data, l)
  \/ \E data \in Recordings, l \in TotalLengths : NewRecording(data, l)
  \/ \E l \in TotalLengths : PropChange(l)
  \/ Unmount
  \/ \E cb \in rafPending2, eager \in BOOLEAN : Tick2D(cb, eager)
  \/ \E cb \in rafPending3 : Tick3D(cb)

Spec == Init /\ [][Next]_vars

\* SignatureRecreate in a window that is resized; the frames of
\* SignatureModel, which leave it alone, are not run
InitResize == InitRegion /\ resizable = TRUE

ResizeLength == 7

NextResize ==
  \/ \E data \in Recordings : Mount(data, ResizeLength)
  \/ \E data \in Recordings : NewRecording(data, ResizeLength)
  \/ PropChange(ResizeLength)
  \/ Unmount
  \/ \E cb \in rafPending2, eager \in BOOLEAN : Tick2D(cb, eager)
  \/ \E cw \in ContainerWidths : Resize(cw)

SpecResize == InitResize /\ [][NextResize]_vars

\* drawSignature on every input
\* a canvas that holds a curve of an earlier frame
StaleSurface ==
  [bg |-> "white",
   strokes |-> << [cx |-> X0, cy |-> X0, x |-> X10, y |-> X10, width |-> One] >>]

\* the temporary canvas of an export is new
InitDraw ==
  /\ drawArgs \in DrawInputs
  /\ drawCalls = << >>
  /\ drawDone = FALSE
  /\ exportCalls = << >>
  /\ exportDone = FALSE
  /\ surface \in { BlankSurface, StaleSurface }
  /\ drawArgs.background = "transparent" => surface = BlankSurface
  /\ containerWidth = CaptureSize
  /\ resizable = FALSE
  /\ CaptureIdle
  /\ ScaleIdle
  /\ RegionIdle
  /\ variant = drawArgs.variant

NextDraw == Draw \/ Download

SpecDraw == InitDraw /\ [][NextDraw]_vars

\* drawSignature and the export on recordings of a capture size of 0
InitDims ==
  /\ drawArgs \in DimInputs
  /\ drawCalls = << >>
  /\ drawDone = FALSE
  /\ exportCalls = << >>
  /\ exportDone = FALSE
  /\ surface = BlankSurface
  /\ containerWidth = CaptureSize
  /\ resizable = FALSE
  /\ CaptureIdle
  /\ ScaleIdle
  /\ RegionIdle
  /\ variant = drawArgs.variant

SpecDims == InitDims /\ [][NextDraw]_vars

\* handleComplete on every pad content
InitCapture ==
  /\ padData \in PadDatas(MaxPadPoints, MaxStrokes)
  /\ flatData = << >>
  /\ captureDone = FALSE
  /\ PadIdle
  /\ ScaleIdle
  /\ DrawIdle
  /\ RegionIdle
  /\ variant = "fixed"
  /\ surface = BlankSurface
  /\ containerWidth = CaptureSize
  /\ resizable = FALSE

NextCapture == Complete

SpecCapture == InitCapture /\ [][NextCapture]_vars

\* SignatureCapture under strokes, clicks and window resizes
InitPad == Init

NextPad ==
  \/ \E stroke \in PadStrokes : PadStroke(stroke)
  \/ PadClear
  \/ PadResize
  \/ PadProcess
  \/ PadDownload

SpecPad == InitPad /\ [][NextPad]_vars

\* a coordinate within the capture bounds scaled to a surface of the
\* capture size
MaxDim == 20

InitScale ==
  /\ scaleArgs \in { [v |-> Int2Num(x), originalDim |-> Int2Num(w),
                       canvasDim |-> Int2Num(w)] :
                      x \in 0..MaxDim, w \in 1..MaxDim }
  /\ scaleArgs.v.n <= scaleArgs.originalDim.n
  /\ scaleResult = Zero
  /\ scaleDone = FALSE
  /\ DrawIdle
  /\ CaptureIdle
  /\ RegionIdle
  /\ variant = "scaled"
  /\ surface = BlankSurface
  /\ containerWidth = CaptureSize
  /\ resizable = FALSE

NextScale == Scale

SpecScale == InitScale /\ [][NextScale]_vars

(***************************************************************************)
(* Properties of the reveal.                                               *)
(***************************************************************************)
Total == Len(signatureData)

\* the count is the number of frames run, up to the total
C1_Count ==
  (mounted /\ Total >= 1) => Len(currentPoints) = Min(ticks2, Total)

\* a frame adds one point until the total is reached, nothing else changes
\* the sequence
C1_Step ==
  (mounted /\ Total >= 1
     /\ event'.name \notin {"mount", "newRecording", "unmount", "error"})
  => IF event'.name = "tick2"
     THEN /\ ticks2' = ticks2 + 1
          /\ Len(currentPoints') =
               (IF Len(currentPoints) < Total
                THEN Len(currentPoints) + 1 ELSE Len(currentPoints))
          /\ SubSeq(currentPoints', 1, Len(currentPoints)) = currentPoints
     ELSE currentPoints' = currentPoints

\* C1: once a recording of total >= 1 points is started and neither a new
\* recording nor an unmount intervenes, every frame adds exactly one point,
\* the revealed count never decreases, it is total after total frames and
\* it does not change afterwards.
Thm_C1 == [] C1_Count /\ [][C1_Step]_vars

Wit_C1 ==
  /\ mounted
  /\ Total >= 2
  /\ ticks2 = Total + 1
  /\ Len(currentPoints) = Total
  /\ event.name = "tick2"

\* every pending callback belongs to the reveal started last
C2_NoOld == \A cb \in rafPending2 : cb.run = currentRun

\* a new recording leaves exactly the first frame of its own reveal
\* pending, with nothing revealed
C2_Step ==
  (event'.name = "newRecording" /\ Len(signatureData') >= 1)
  => /\ currentPoints' = << >>
     /\ ticks2' = 0
     /\ Cardinality(rafPending2') = 1
     /\ rafPending2' \cap rafPending2 = {}
     /\ \A cb \in rafPending2' :
          /\ closures'[cb.run].data = signatureData'
          /\ closures'[cb.run].currentIndex = 0

\* a frame that appends anything appends it for the reveal started last
C2_Tick ==
  (event'.name = "tick2" /\ currentPoints' # currentPoints)
  => \E cb \in rafPending2 :
       /\ cb.run = currentRun
       /\ closures[cb.run].data = signatureData

\* C2: when a new recording arrives during a reveal, the pending frame
\* callback of the old reveal is cancelled and the revealed count is 0
\* before the first frame of the new reveal is scheduled; no frame of the
\* old recording appends a point afterwards.
Thm_C2 == [] C2_NoOld /\ [][C2_Step /\ C2_Tick]_vars

Wit_C2 ==
  /\ event.name = "newRecording"
  /\ event.busy
  /\ Total >= 1
  /\ currentPoints = << >>
  /\ Cardinality(rafPending2) = 1

\* C3: over any sequence of mount, new recording, prop change and unmount,
\* at most one frame callback of SignatureRecreate and at most one of
\* SignatureModel is pending.
Thm_C3 == Cardinality(rafPending2) <= 1 /\ Cardinality(rafPending3) <= 1

Wit_C3 ==
  /\ event.name = "propChange"
  /\ Cardinality(rafPending2) = 1
  /\ Cardinality(rafPending3) = 1
  /\ materialRef # 0

DashOffsets == [m \in DOMAIN meshes |-> meshes[m].dashOffset]

C4_NoOrphan == ~mounted => (rafPending2 = {} /\ rafPending3 = {})

C4_Step ==
  (~mounted /\ event'.name \in {"tick2", "tick3"})
  => (currentPoints' = currentPoints /\ DashOffsets' = DashOffsets)

\* C4: after the unmount, whenever it happens, no frame callback of either
\* component is left to run, so no point is appended to the revealed
\* sequence and no dash offset changes.
Thm_C4 == [] C4_NoOrphan /\ [][C4_Step]_vars

Wit_C4 ==
  /\ ~mounted
  /\ event.name = "unmount"
  /\ event.busy
  /\ Len(currentPoints) >= 1
  /\ Len(currentPoints) < Total
  /\ \E m \in DOMAIN meshes : meshes[m].built /\ meshes[m].dashOffset > 0

C5_NonNegative == \A m \in DOMAIN meshes : meshes[m].dashOffset >= 0

\* while the material stays the same, a frame of the loop lowers a
\* positive offset by the step, clamped to 0, and nothing else changes it
C5_Step ==
  (materialRef # 0 /\ materialRef' = materialRef)
  => LET off == meshes[materialRef].dashOffset
         offNext == meshes'[materialRef].dashOffset
     IN  /\ offNext <= off
         /\ off = 0 => offNext = 0
         /\ event'.name = "tick3" =>
              offNext = (IF off > DashStep THEN off - DashStep ELSE 0)
         /\ event'.name # "tick3" => offNext = off

\* C5: within one playback, every frame on which the dash offset is above 0
\* lowers it by the step 0.003, clamped to 0; the offset is never negative,
\* never increases and stays 0 once it is 0.
Thm_C5 == [] C5_NonNegative /\ [][C5_Step]_vars

Wit_C5 ==
  /\ event.name = "tick3"
  /\ materialRef # 0
  /\ meshes[materialRef].dashOffset = 1

\* C6: whenever a new centerline is built, the reveal value starts at 1.0
\* (1000 thousandths), and the reveal is complete exactly when it reaches
\* 0.0.
Cex_C6 ==
  [][(materialRef' # 0 /\ materialRef' # materialRef)
       => meshes'[materialRef'].dashOffset = 1000]_vars

(***************************************************************************)
(* Properties of drawSignature.                                            *)
(***************************************************************************)
OpCalls(calls, op) == SelectSeq(calls, LAMBDA c : c.op = op)

FirstIndex(calls, op) ==
  CHOOSE i \in 1..Len(calls) :
    calls[i].op = op /\ \A j \in 1..(i - 1) : calls[j].op # op

AllValid(pts) == \A i \in 1..Len(pts) : ValidPoint(pts[i])

\* v * canvasDim / originalDim, on finite operands
ExpTarget(kind, v, originalDim, canvasDim) ==
  IF kind = "scaled"
  THEN Num(v.n * canvasDim.n * originalDim.d, v.d * canvasDim.d * originalDim.n)
  ELSE v

ExpX(a, i) == ExpTarget(a.variant, a.points[i].x, a.originalWidth, a.canvasWidth)
ExpY(a, i) == ExpTarget(a.variant, a.points[i].y, a.originalHeight, a.canvasHeight)

ExpMid(p, q) == Num(p.n * q.d + q.n * p.d, 2 * p.d * q.d)

\* C7: for N >= 2 valid points drawSignature emits exactly N-1 curves; it
\* moves to P_0 first, and curve i has P_i as control point and the
\* midpoint of P_i and P_{i+1} as end point.
Thm_C7 ==
  (drawDone /\ Len(drawArgs.points) >= 2 /\ AllValid(drawArgs.points))
  => LET n == Len(drawArgs.points)
         curves == OpCalls(drawCalls, "quadraticCurveTo")
     IN  /\ Len(curves) = n - 1
         /\ \A i \in 1..(n - 1) :
              curves[i] = Call("quadraticCurveTo", ExpX(drawArgs, i), ExpY(drawArgs, i),
                               ExpMid(ExpX(drawArgs, i), ExpX(drawArgs, i + 1)),
                               ExpMid(ExpY(drawArgs, i), ExpY(drawArgs, i + 1)))
         /\ OpCalls(drawCalls, "moveTo")
              = << Call("moveTo", ExpX(drawArgs, 1), ExpY(drawArgs, 1), Zero, Zero) >>
         /\ FirstIndex(drawCalls, "moveTo") < FirstIndex(drawCalls, "quadraticCurveTo")

Wit_C7 ==
  /\ drawDone
  /\ Len(drawArgs.points) = 3
  /\ AllValid(drawArgs.points)
  /\ drawArgs.points[1] # drawArgs.points[2]
  /\ drawArgs.canvasWidth # drawArgs.originalWidth
  /\ Len(OpCalls(drawCalls, "quadraticCurveTo")) = 2

ValidPairs(pts) ==
  { i \in 1..(Len(pts) - 1) : ValidPoint(pts[i]) /\ ValidPoint(pts[i + 1]) }

\* C8: a point with a non-finite coordinate removes exactly the curves that
\* touch it: one curve is emitted per pair of valid neighbours and no other.
Cex_C8 ==
  drawDone
  => LET curves == OpCalls(drawCalls, "quadraticCurveTo")
     IN  /\ Len(curves) = Cardinality(ValidPairs(drawArgs.points))
         /\ \A j \in 1..Len(curves) : FiniteArgs(curves[j])

\* the base width the component draws with
EffectiveBase(a) ==
  IF a.variant = "fixed" /\ a.innerWidth < MobileBreakpoint
  THEN Num(a.baseLineWidth.n, 2 * a.baseLineWidth.d)
  ELSE a.baseLineWidth

\* baseWidth * (targetDim / referenceDim) * (1 + pressure)
ExpScaledWidth(baseWidth, referenceDim, targetDim, pressure) ==
  Num(baseWidth.n * targetDim.n * referenceDim.d * (pressure.d + pressure.n),
      baseWidth.d * targetDim.d * referenceDim.n * pressure.d)

\* C9: curve i is stroked with the width scaledWidth(baseLineWidth,
\* referenceDim, targetDim, P_i.pressure), and two curves whose start points
\* differ in pressure are stroked with different widths.
Cex_C9 ==
  (drawDone /\ Len(drawArgs.points) >= 2 /\ AllValid(drawArgs.points))
  => LET st == Strokes(drawCalls)
         pts == drawArgs.points
     IN  /\ Len(st) = Len(pts) - 1
         /\ \A i \in 1..Len(st) :
              st[i].width = ExpScaledWidth(EffectiveBase(drawArgs), drawArgs.originalWidth,
                                           drawArgs.canvasWidth, pts[i].pressure)
         /\ \A i, j \in 1..Len(st) :
              pts[i].pressure # pts[j].pressure => st[i].width # st[j].width

C10_Scenario ==
  /\ drawDone
  /\ drawArgs.variant = "scaled"
  /\ drawArgs.points = << Pt(X0, X0, P05), Pt(X10, X0, P05), Pt(X10, X10, P05) >>
  /\ drawArgs.originalWidth = Int2Num(20) /\ drawArgs.originalHeight = Int2Num(20)
  /\ drawArgs.canvasWidth = Int2Num(40) /\ drawArgs.canvasHeight = Int2Num(40)

\* C10: the recording (0,0), (10,0), (10,10) with pressure 0.5, captured at
\* 20x20 and drawn on a 40x40 target, gives 2 curves whose control and end
\* points are the capture-space ones times 2, with line width
\* baseWidth * 2 * 1.5.
Thm_C10 ==
  C10_Scenario
  => LET w == Num(drawArgs.baseLineWidth.n * 3, drawArgs.baseLineWidth.d)
     IN  /\ OpCalls(drawCalls, "quadraticCurveTo")
              = << Call("quadraticCurveTo", Int2Num(0), Int2Num(0), Int2Num(10), Int2Num(0)),
                   Call("quadraticCurveTo", Int2Num(20), Int2Num(0), Int2Num(20), Int2Num(10)) >>
         /\ \A i \in 1..Len(drawCalls) :
              drawCalls[i].op = "lineWidth" => drawCalls[i].a = w
         /\ Len(Strokes(drawCalls)) = 2
         /\ \A i \in 1..Len(Strokes(drawCalls)) : Strokes(drawCalls)[i].width = w

Wit_C10 == C10_Scenario /\ Len(OpCalls(drawCalls, "quadraticCurveTo")) = 2

\* C11: every call of drawSignature, for any prefix including the empty
\* one, first fills (white, live preview) or clears (transparent, export)
\* the whole canvas, so that after the call the canvas holds only the
\* strokes of the prefix passed to that call.
Cex_C11 ==
  drawDone
  => /\ Len(drawCalls) >= 1
     /\ drawCalls[1] = Call(IF drawArgs.background = "white"
                            THEN "fillRect" ELSE "clearRect",
                            Zero, Zero, drawArgs.canvasWidth, drawArgs.canvasHeight)
     /\ surface.bg = drawArgs.background
     /\ surface.strokes = Strokes(drawCalls)

\* v * num / den
Times(v, num, den) == JsDiv(JsMul(v, num), den)

\* the export of the points of a preview has been made
C13_Exported == drawDone /\ exportDone /\ drawArgs.background = "white"

RECURSIVE Concat(_)
Concat(seqs) == IF seqs = << >> THEN << >> ELSE Head(seqs) \o Concat(Tail(seqs))

\* a pressure that is a number in [0, 1]
NumericPressure(p) == IsFinite(p) /\ p.n >= 0 /\ p.n <= p.d

\* the pad points that handleComplete pushed, in order
Pushed == SelectSeq(Concat(padData), PushesPoint)

\* C14: the pressure of a point is replaced by 0.5 only when it is absent
\* or not a number; a numeric pressure in [0, 1], 0 included, is kept as it
\* is when the recording is built and when the stroke width is computed.
Cex_C14 ==
  captureDone
  => /\ Len(flatData) = Len(Pushed)
     /\ \A i \in 1..Len(flatData) :
          /\ flatData[i].pressure =
               (IF NumericPressure(Pushed[i].pressure)
                THEN Pushed[i].pressure ELSE Half)
          /\ PressureOrDefault(flatData[i].pressure) = flatData[i].pressure

\* a pad point the recording is to keep: finite coordinates, numeric time
WellFormed(pt) == IsFinite(pt.x) /\ IsFinite(pt.y) /\ TypeofNumber(pt.time)

\* C15: the recording is the concatenation, in order, of the points of all
\* strokes without the points that have a non-finite coordinate or a
\* non-numeric timestamp; every other point is kept.
Cex_C15 ==
  captureDone
  => LET kept == SelectSeq(Concat(padData), WellFormed)
     IN  /\ Len(flatData) = Len(kept)
         /\ \A i \in 1..Len(flatData) :
              /\ flatData[i].x = kept[i].x
              /\ flatData[i].y = kept[i].y
              /\ flatData[i].timestamp = kept[i].time

(***************************************************************************)
(* Properties of the canvas of SignatureRecreate.                          *)
(***************************************************************************)
\* the curves of a prefix at the size the container gives the canvas
FrameStrokes(v, points, cw) == Strokes(drawSignature(ComponentArgs(v, points, cw)))

\* C12: on every reveal frame and on every resize the canvas receives a
\* frame that is cleared and then drawn with the revealed prefix at the
\* current size; after a resize it never shows fewer points than the
\* revealed prefix.
Cex_C12 ==
  [][(event'.name \in {"tick2", "resize"})
       => /\ surface'.strokes = FrameStrokes(variant, currentPoints', containerWidth')
          /\ event'.name = "resize" =>
                Len(surface'.strokes)
                  >= Len(FrameStrokes(variant, currentPoints', containerWidth'))]_vars

(***************************************************************************)
(* Properties of degenerate recordings and of the ribbon mesh.             *)
(***************************************************************************)
\* while the recording is empty no frame callback of SignatureRecreate is
\* pending
C16_NoReveal == (mounted /\ Total = 0) => rafPending2 = {}

\* an empty recording arrives: nothing is drawn, no mesh is built and no
\* frame callback is requested for it
C16_Arrives ==
  (event'.name \in {"mount", "newRecording"} /\ Len(signatureData') = 0)
  => /\ surface' = (IF event'.name = "mount" THEN BlankSurface ELSE surface)
     /\ rafPending2' = {}
     /\ IF event'.name = "mount"
        THEN /\ \A m \in DOMAIN meshes' : ~meshes'[m].built
             /\ sceneMeshes' = {} /\ meshRef' = 0 /\ materialRef' = 0
             /\ Cardinality(rafPending3') = 1
        ELSE /\ meshes' = meshes /\ sceneMeshes' = sceneMeshes
             /\ meshRef' = meshRef /\ materialRef' = materialRef
             /\ rafPending3' = rafPending3

\* while the recording is empty a prop change builds nothing, and the
\* frames of the render loop reveal nothing unless an earlier ribbon is
\* still there
C16_Stays ==
  (mounted /\ Total = 0)
  => /\ event'.name = "propChange" =>
          (meshes' = meshes /\ sceneMeshes' = sceneMeshes /\ meshRef' = meshRef)
     /\ (event'.name = "tick3" /\ materialRef = 0) => DashOffsets' = DashOffsets
     /\ event'.name \in {"propChange", "tick3"} => surface'.strokes = surface.strokes

Cex_C17 ==
  [][(event'.name \in {"mount", "newRecording", "error"} /\ Len(signatureData') = 1)
       => /\ event'.name # "error"
          /\ mounted'
          /\ sceneMeshes' \subseteq sceneMeshes
          /\ surface'.strokes = << >>]_vars

\* C18: a recording of N >= 2 points is resampled, with k = 10, into a
\* centerline of exactly (N - 1) * k + 1 samples.
Cex_C18 ==
  [][(event'.name \in {"mount", "newRecording", "propChange"}
        /\ materialRef' # 0 /\ Len(signatureData') >= 2)
       => meshes'[materialRef'].samples
            = (Len(signatureData') - 1) * SampleMultiplier + 1]_vars

\* C19: on every change of the recording, a change to an empty recording
\* included, the mesh of the previous recording is removed from the scene
\* and its geometry and material are released.
Cex_C19 ==
  [][(event'.name = "newRecording" /\ meshRef # 0)
       => /\ meshRef \notin sceneMeshes'
          /\ ~meshes'[meshRef].built \/ meshes'[meshRef].disposed]_vars

\* C20: after teardown every backend resource is released: the scene is
\* gone, no frame of the render loop is pending and the geometry and
\* material of every mesh that was built have been disposed.
Cex_C20 ==
  ~mounted
  => /\ ~sceneRef
     /\ \A cb \in rafPending3 : ~cb.attached
     /\ \A m \in DOMAIN meshes : meshes[m].built => meshes[m].disposed

(***************************************************************************)
(* Properties of the capture size.                                         *)
(***************************************************************************)
\* C21: when the capture width or height delivered with a recording is
\* <= 0, no rendering is attempted for it: drawSignature issues no context
\* call and the export none either.
Cex_C21 ==
  (drawArgs.originalWidth.n <= 0 \/ drawArgs.originalHeight.n <= 0)
  => /\ drawDone => drawCalls = << >>
     /\ exportDone => exportCalls = << >>

(***************************************************************************)
(* Properties of the finished reveal.                                      *)
(***************************************************************************)
\* the reveal of the mounted component ends in this step
RevealEnds == event'.name = "tick2" /\ mounted /\ isAnimating /\ ~isAnimating'

\* C22: replaying the same recording to completion gives the same final
\* 2D output every time: when a reveal ends, the canvas holds the curves
\* that the recording and the render parameters determine, which are those
\* of drawSignature on the whole recording.
Cex_C22 ==
  [][RevealEnds
       => surface'.strokes = FrameStrokes(variant, signatureData, containerWidth)]_vars

(***************************************************************************)
(* Properties of the scaling round trip.                                   *)
(***************************************************************************)
\* C23 as stated: a coordinate within the capture bounds, scaled to
\* normalized space and back to a target of the capture size, is the
\* original coordinate.
Cex_C23 == scaleDone => scaleResult = scaleArgs.v

\* C23: a coordinate within the capture bounds, scaled to normalized space
\* and back to a target of the capture size, is the original coordinate
\* within the floating epsilon: it differs from it by at most the
\* coordinate times 2^(1 - MantissaBits), and 0 comes back as 0.
Thm_C23 ==
  (scaleDone /\ ~ScaleIdle)
  => /\ IsFinite(scaleResult)
     /\ Abs(scaleResult.n * scaleArgs.v.d - scaleArgs.v.n * scaleResult.d)
          * 2^(MantissaBits - 1)
        <= scaleArgs.v.n * scaleResult.d

Wit_C23 ==
  /\ scaleDone
  /\ scaleArgs.originalDim = scaleArgs.canvasDim
  /\ scaleArgs.v.n > 0
  /\ scaleResult # scaleArgs.v

(***************************************************************************)
(* Properties of a reveal in progress.                                     *)
(***************************************************************************)
\* C24: a reveal that has been started is stopped only by a new
\* recording or by unmounting: as long as the reveal of the current
\* recording is in progress (isAnimating is true), a change of the display
\* width or height included, its next frame callback is pending, so that
\* the reveal goes on to the end.
Cex_C24 ==
  (mounted /\ isAnimating /\ Total > 0)
  => \E cb \in rafPending2 : cb.run = currentRun

\* C25: in every state of the reveal of a recording the revealed sequence
\* is the first k points of that recording, in order, k <= total: no
\* undefined entry, no skipped point, no point of another recording,
\* whenever the updater of setCurrentPoints is evaluated.
Cex_C25 ==
  (mounted /\ Total > 0)
  => /\ Len(currentPoints) <= Total
     /\ currentPoints = SubSeq(signatureData, 1, Len(currentPoints))

\* the state in which the Download button is offered
DownloadOffered == mounted /\ ~isAnimating /\ currentPoints # << >>

C26_Complete == (DownloadOffered /\ Total > 0) => currentPoints = signatureData

C26_EndsAtTotal ==
  (event'.name = "tick2" /\ mounted /\ Len(currentPoints) < Total
     /\ Len(currentPoints') = Total)
  => ~isAnimating'

\* C26: whenever the Download button is offered (isAnimating is false and
\* the revealed sequence is non-empty) the revealed sequence holds all the
\* points of the current recording; and isAnimating is false in the state
\* in which the revealed count first equals the total.
Cex_C26 == [] C26_Complete /\ [][C26_EndsAtTotal]_vars

(***************************************************************************)
(* Properties of SignatureCapture.                                         *)
(***************************************************************************)
\* C27: after any sequence of stroke, clear, resize and click events
\* isEmpty is false only if the pad holds at least one stroke; so a click
\* on Process Signature delivers a recording and a click on Download
\* exports the strokes that were drawn.
Cex_C27 ==
  /\ ~isEmpty => Len(padData) >= 1
  /\ padOutput.op = "process" => (padOutput.called /\ padOutput.data # << >>)
  /\ padOutput.op = "download" => (padOutput.called /\ padOutput.data # << >>)

C28_Call ==
  (padOutput.op = "process" /\ padOutput.called)
  => (padOutput.data # << >> /\ ~isEmpty)

C28_App == appSize # 0 => (appData # << >> /\ DisplayRendered(appData, appSize))

C28_Step ==
  (appData' # appData \/ appSize' # appSize)
  => /\ padOutput'.op = "process" /\ padOutput'.called
     /\ appData' = padOutput'.data
     /\ appData' # << >>

\* C28: onSignatureComplete is never invoked with an empty point list and
\* never while isEmpty is true; the recording of App changes only by such
\* a call, so App never renders the 2D and 3D displays with an empty
\* recording.
Thm_C28 == [] (C28_Call /\ C28_App) /\ [][C28_Step]_vars

Wit_C28 ==
  /\ padOutput.op = "process"
  /\ padOutput.called
  /\ appData = padOutput.data
  /\ DisplayRendered(appData, appSize)

(***************************************************************************)
(* Properties of the ribbon across prop changes.                           *)
(***************************************************************************)
\* C29: a change of width, height, depth or color alone does not reset the
\* 3D reveal: the material in use stays and its reveal value does not go
\* up.
Cex_C29 ==
  [][(event'.name = "propChange" /\ materialRef # 0)
       => /\ materialRef' # 0
          /\ meshes'[materialRef'].dashOffset <= meshes[materialRef].dashOffset]_vars

\* C30: at most one ribbon mesh is attached to the scene, and an attached
\* mesh is the one built from the current recording, whose material the
\* animation loop updates.
Cex_C30 ==
  /\ Cardinality(sceneMeshes) <= 1
  /\ \A m \in sceneMeshes :
       /\ m = meshRef
       /\ m = materialRef
       /\ meshes[m].built /\ ~meshes[m].disposed
       /\ Len(signatureData) > 0
       /\ meshes[m].samples = CenterlineSamples(signatureData)

====
